---------------------------- MODULE Spec2Model ----------------------------
(***************************************************************************)
(* Model of the gallery search of lib/actions/image.actions.ts:            *)
(* sanitizeQuery and getAllImages (no-query path, database fallback and    *)
(* the scored query path) over a small document store.                     *)
(* fetchAllCloudinaryPublicIds of the same file and the Search component   *)
(* of components/shared/Search.tsx have their own specifications.          *)
(*                                                                         *)
(* A JavaScript string is a sequence of one-character strings; the empty   *)
(* sequence is the empty string, and a record field holding it is an       *)
(* absent field (both are falsy for the `if (image.title)` guards).        *)
(***************************************************************************)
EXTENDS Integers, Sequences, FiniteSets, TLC

VARIABLES
  store,                    \* the Image collection, in natural (insertion) order
  cloudinaryConfigured,     \* the three Cloudinary environment values are set
  pc,                       \* position of the one call being served
  limit, page, searchQuery, \* arguments of getAllImages
  maxLen,                   \* second argument of sanitizeQuery
  sanitizedQuery,           \* const sanitizedQuery
  transformationVariations, \* const transformationVariations
  searchVariations,         \* const searchVariations
  scoredImages,             \* const scoredImages, sorted in place
  path,                     \* which branch of getAllImages answered
  result,                   \* the value getAllImages returned
  filterText,               \* the text the store predicate was built from
  storeError,               \* an await on the store rejected in this call
  firstResult,              \* what the same call returned the time before
  nextCursor,               \* let nextCursor of fetchAllCloudinaryPublicIds
  fetchedSoFar,             \* let fetchedSoFar
  publicIds,                \* const publicIds, by its length
  inputQuery,               \* const [query, setQuery] of Search
  urlQuery,                 \* searchParams.get("query") ?? ""
  timers,                   \* the pending timeouts of the debounce effect
  navigations,              \* router.push calls that have not landed yet
  changes,                  \* input and history events still to come
  users,                    \* the User collection, by the clerkId of each record
  uniqueClerkId,            \* the User schema has a unique index on clerkId
  calls                     \* position and clerkId of each user action call

galleryVars == << store, cloudinaryConfigured, pc, limit, page, searchQuery, maxLen,
                  sanitizedQuery, transformationVariations, searchVariations,
                  scoredImages, path, result, filterText, storeError, firstResult >>

galleryVarsButPc == << store, cloudinaryConfigured, limit, page, searchQuery, maxLen,
                       sanitizedQuery, transformationVariations, searchVariations,
                       scoredImages, path, result, filterText, storeError,
                       firstResult >>

fetchVars == << nextCursor, fetchedSoFar, publicIds >>

searchVars == << inputQuery, urlQuery, timers, navigations, changes >>

userVars == << users, uniqueClerkId, calls >>

vars == << galleryVars, fetchVars, searchVars, userVars >>

-----------------------------------------------------------------------------
(* Bounds of the model *)

MaxRawLen == 3
MaxLenArg == 3
MaxStore == 3
MaxPage == 3
MaxLimit == 2

MaxWords == 2

MaxChanges == 4

MaxTitleLen == 3

MaxTitleQueryLen == 2

MaxCalls == 3

-----------------------------------------------------------------------------
(* Characters and the string primitives of JavaScript *)

LowerLetters ==
  << "a", "b", "c", "d", "e", "f", "g", "h", "i", "j", "k", "l", "m",
     "n", "o", "p", "q", "r", "s", "t", "u", "v", "w", "x", "y", "z" >>

UpperLetters ==
  << "A", "B", "C", "D", "E", "F", "G", "H", "I", "J", "K", "L", "M",
     "N", "O", "P", "Q", "R", "S", "T", "U", "V", "W", "X", "Y", "Z" >>

Digits == { "0", "1", "2", "3", "4", "5", "6", "7", "8", "9" }

Range(s) == { s[i] : i \in 1..Len(s) }

Min(a, b) == IF a <= b THEN a ELSE b

Max(a, b) == IF a >= b THEN a ELSE b

\* \w of a JavaScript regular expression without the u flag
IsWordChar(c) == c \in Range(LowerLetters) \cup Range(UpperLetters) \cup Digits \cup { "_" }

\* \s of a JavaScript regular expression (the members the model draws)
IsSpaceChar(c) == c \in { " ", "\t", "\n" }

\* The backtick character (a TLA+ string cannot hold it)
Backtick == "BACKTICK"

\* the character class of the first replace: the three quotes, backslash, slash
IsStrippedChar(c) == c \in { "\"", "'", Backtick, "\\", "/" }

\* the complement of the class [^\w\s\-_.] of the second replace
IsKeptChar(c) == IsWordChar(c) \/ IsSpaceChar(c) \/ c \in { "-", "_", "." }

toLowerChar(c) ==
  IF c \in Range(UpperLetters)
    THEN LowerLetters[CHOOSE i \in 1..Len(UpperLetters) : UpperLetters[i] = c]
    ELSE c

toLowerCase(s) == [i \in 1..Len(s) |-> toLowerChar(s[i])]

\* a slice that takes the end index as inclusive
sliceInclusiveEnd(s, start, end) ==
  LET from == Min(start, Len(s))
      to == Min(end + 1, Len(s))
  IN  IF to <= from THEN << >> ELSE SubSeq(s, from + 1, to)

\* s.slice(start, end) for 0 <= start, 0 <= end
slice(s, start, end) ==
  LET from == Min(start, Len(s))
      to == Min(end, Len(s))
  IN  IF to <= from THEN << >> ELSE SubSeq(s, from + 1, to)

\* text.startsWith(sub, at - 1): sub occurs in text at the 1-based index at
occursAt(text, sub, at) ==
  /\ at + Len(sub) - 1 <= Len(text)
  /\ \A k \in 1..Len(sub) : text[at + k - 1] = sub[k]

includes(text, sub) == \E at \in 1..(Len(text) + 1) : occursAt(text, sub, at)

startsWith(text, sub) == occursAt(text, sub, 1)

\* text.split(" "): the maximal pieces between single spaces, as a set
split(text) ==
  LET cuts == { 0, Len(text) + 1 } \cup { i \in 1..Len(text) : text[i] = " " }
  IN  { SubSeq(text, a + 1, b - 1) :
          <<a, b>> \in { p \in cuts \X cuts :
                           /\ p[1] < p[2]
                           /\ \A i \in (p[1] + 1)..(p[2] - 1) : i \notin cuts } }

-----------------------------------------------------------------------------
(* sanitizeQuery *)

\* the first replace: strip quotes, backslashes and slashes
stripQuotes(s) == SelectSeq(s, LAMBDA c : ~IsStrippedChar(c))

\* a second replace whose class forgets nothing but the whitespace
replaceSpecialKeepsAll(s) == s

\* .replace(/[^\w\s\-_.]/g, " ")
replaceSpecial(s) == [i \in 1..Len(s) |-> IF IsKeptChar(s[i]) THEN s[i] ELSE " "]

\* .replace(/\s+/g, " "): every maximal run of whitespace becomes one space
RECURSIVE collapseSpaces(_)
collapseSpaces(s) ==
  IF s = << >> THEN << >>
  ELSE IF IsSpaceChar(Head(s))
    THEN IF Len(s) > 1 /\ IsSpaceChar(s[2])
           THEN collapseSpaces(Tail(s))
           ELSE << " " >> \o collapseSpaces(Tail(s))
    ELSE << Head(s) >> \o collapseSpaces(Tail(s))

\* .trim()
RECURSIVE trimStart(_)
trimStart(s) ==
  IF s # << >> /\ IsSpaceChar(Head(s)) THEN trimStart(Tail(s)) ELSE s

RECURSIVE trimEnd(_)
trimEnd(s) ==
  IF s # << >> /\ IsSpaceChar(s[Len(s)]) THEN trimEnd(SubSeq(s, 1, Len(s) - 1)) ELSE s

trim(s) == trimEnd(trimStart(s))

\* sanitizeQuery truncating before it trims
sanitizeQueryTruncatesFirst(raw, len) ==
  IF raw = << >> THEN << >>
  ELSE trim(slice(collapseSpaces(replaceSpecial(stripQuotes(raw))), 0, len))

sanitizeQuery(raw, len) ==
  IF raw = << >> THEN << >>
  ELSE slice(trim(collapseSpaces(replaceSpecial(stripQuotes(raw)))), 0, len)

DefaultMaxLen == 120

-----------------------------------------------------------------------------
(* The alias tables of getAllImages, in the order of Object.entries *)

transformationTypeMap ==
  <<
    [key |-> <<"f", "i", "l", "l">>,
     variations |-> << <<"f", "i", "l", "l">>,
                     <<"b", "a", "c", "k", "g", "r", "o", "u", "n", "d">> >>],
    [key |-> <<"r", "e", "m", "o", "v", "e">>,
     variations |-> << <<"r", "e", "m", "o", "v", "e", "B", "a", "c", "k", "g", "r", "o", "u", "n", "d">>,
                     <<"r", "e", "m", "o", "v", "e">>,
                     <<"b", "a", "c", "k", "g", "r", "o", "u", "n", "d", " ", "r", "e", "m", "o", "v", "a", "l">>,
                     <<"r", "e", "m", "o", "v", "e", "b", "g">> >>],
    [key |-> <<"r", "e", "c", "o", "l", "o", "r">>,
     variations |-> << <<"r", "e", "c", "o", "l", "o", "r">>,
                     <<"c", "o", "l", "o", "r">> >>],
    [key |-> <<"r", "e", "m", "o", "v", "e", "b", "g">>,
     variations |-> << <<"r", "e", "m", "o", "v", "e", "B", "a", "c", "k", "g", "r", "o", "u", "n", "d">>,
                     <<"r", "e", "m", "o", "v", "e", "b", "g">>,
                     <<"b", "a", "c", "k", "g", "r", "o", "u", "n", "d">>,
                     <<"r", "e", "m", "o", "v", "e", " ", "b", "a", "c", "k", "g", "r", "o", "u", "n", "d">> >>],
    [key |-> <<"g", "e", "n", "e", "r", "a", "t", "i", "v", "e">>,
     variations |-> << <<"g", "e", "n", "e", "r", "a", "t", "i", "v", "e", "F", "i", "l", "l">>,
                     <<"g", "e", "n", "e", "r", "a", "t", "i", "v", "e">>,
                     <<"f", "i", "l", "l">> >>],
    [key |-> <<"r", "e", "s", "t", "o", "r", "e">>,
     variations |-> << <<"r", "e", "s", "t", "o", "r", "e">>,
                     <<"r", "e", "s", "t", "o", "r", "a", "t", "i", "o", "n">> >>],
    [key |-> <<"o", "b", "j", "e", "c", "t">>,
     variations |-> << <<"o", "b", "j", "e", "c", "t", "R", "e", "m", "o", "v", "e">>,
                     <<"o", "b", "j", "e", "c", "t">>,
                     <<"r", "e", "m", "o", "v", "e">> >>],
    [key |-> <<"b", "l", "u", "r">>,
     variations |-> << <<"b", "l", "u", "r">>,
                     <<"b", "l", "u", "r", "r", "e", "d">> >>],
    [key |-> <<"s", "h", "a", "r", "p", "e", "n">>,
     variations |-> << <<"s", "h", "a", "r", "p", "e", "n">>,
                     <<"s", "h", "a", "r", "p">> >>],
    [key |-> <<"g", "r", "a", "y", "s", "c", "a", "l", "e">>,
     variations |-> << <<"g", "r", "a", "y", "s", "c", "a", "l", "e">>,
                     <<"g", "r", "e", "y">>,
                     <<"g", "r", "a", "y">> >>],
    [key |-> <<"s", "e", "p", "i", "a">>,
     variations |-> << <<"s", "e", "p", "i", "a">>,
                     <<"v", "i", "n", "t", "a", "g", "e">> >>],
    [key |-> <<"o", "i", "l">>,
     variations |-> << <<"o", "i", "l", "P", "a", "i", "n", "t">>,
                     <<"o", "i", "l">>,
                     <<"p", "a", "i", "n", "t", "i", "n", "g">> >>],
    [key |-> <<"c", "a", "r", "t", "o", "o", "n">>,
     variations |-> << <<"c", "a", "r", "t", "o", "o", "n", "i", "f", "y">>,
                     <<"c", "a", "r", "t", "o", "o", "n">>,
                     <<"a", "n", "i", "m", "e">> >>]
  >>

commonMisspellings ==
  <<
    [key |-> <<"r", "e", "m", "o", "v", "e">>,
     variations |-> << <<"r", "e", "m", "v", "o", "e">>,
                     <<"r", "e", "m", "v", "e">>,
                     <<"r", "m", "o", "v", "e">>,
                     <<"r", "e", "m", "o", "v">>,
                     <<"d", "e", "l", "e", "t", "e">> >>],
    [key |-> <<"b", "a", "c", "k", "g", "r", "o", "u", "n", "d">>,
     variations |-> << <<"b", "a", "k", "g", "r", "o", "u", "n", "d">>,
                     <<"b", "c", "k", "g", "r", "o", "u", "n", "d">>,
                     <<"b", "a", "c", "k", "g", "o", "u", "n", "d">>,
                     <<"b", "g">> >>],
    [key |-> <<"c", "o", "l", "o", "r">>,
     variations |-> << <<"c", "o", "l", "o", "u", "r">>,
                     <<"c", "l", "r">>,
                     <<"c", "o", "l", "r">> >>],
    [key |-> <<"g", "e", "n", "e", "r", "a", "t", "i", "v", "e">>,
     variations |-> << <<"g", "e", "n", "r", "a", "t", "i", "v", "e">>,
                     <<"g", "e", "n", "e", "r", "a", "t", "v", "e">>,
                     <<"g", "e", "n">> >>],
    [key |-> <<"r", "e", "s", "t", "o", "r", "e">>,
     variations |-> << <<"r", "e", "s", "t", "o", "r">>,
                     <<"r", "e", "s", "t", "r">>,
                     <<"f", "i", "x">> >>],
    [key |-> <<"b", "l", "u", "r">>,
     variations |-> << <<"b", "l", "r">>,
                     <<"b", "l", "u", "r", "e">> >>],
    [key |-> <<"s", "h", "a", "r", "p", "e", "n">>,
     variations |-> << <<"s", "h", "a", "r", "p", "e", "n">>,
                     <<"s", "h", "a", "r", "p", "n">> >>]
  >>


RECURSIVE flatten(_)
flatten(seqs) == IF seqs = << >> THEN << >> ELSE Head(seqs) \o flatten(Tail(seqs))

\* an expansion that looks for the key only
expandTransformationsKeyOnly(queryLower) ==
  flatten([i \in 1..Len(transformationTypeMap) |->
    LET e == transformationTypeMap[i]
    IN  IF includes(queryLower, e.key) THEN e.variations ELSE << >>])

\* for (const [key, variations] of ...) if (...) transformationVariations.push(...variations)
expandTransformations(queryLower) ==
  flatten([i \in 1..Len(transformationTypeMap) |->
    LET e == transformationTypeMap[i]
    IN  IF \/ includes(queryLower, e.key)
           \/ \E k \in 1..Len(e.variations) : includes(queryLower, e.variations[k])
          THEN e.variations
          ELSE << >>])

\* an expansion whose reverse lookup does not depend on the forward one
expandMisspellingsBothWays(queryLower) ==
  flatten([i \in 1..Len(commonMisspellings) |->
    LET e == commonMisspellings[i]
    IN  (IF includes(queryLower, e.key) THEN e.variations ELSE << >>)
          \o (IF \E k \in 1..Len(e.variations) : includes(queryLower, e.variations[k])
                THEN << e.key >>
                ELSE << >>)])

\* for (const [correct, misspellings] of ...) push(...misspellings) / push(correct)
expandMisspellings(queryLower) ==
  flatten([i \in 1..Len(commonMisspellings) |->
    LET e == commonMisspellings[i]
    IN  IF includes(queryLower, e.key)
          THEN e.variations
          ELSE IF \E k \in 1..Len(e.variations) : includes(queryLower, e.variations[k])
                 THEN << e.key >>
                 ELSE << >>])

-----------------------------------------------------------------------------
(* Regular expressions built from the query: new RegExp(source, "i") *)

\* one pattern character against one text character: "." matches any
\* character (no text of the model holds a line terminator), any other
\* character of a pattern matches itself, case-insensitively
charMatches(p, c) == p = "." \/ toLowerChar(p) = toLowerChar(c)

patternAt(text, pattern, at) ==
  /\ at + Len(pattern) - 1 <= Len(text)
  /\ \A k \in 1..Len(pattern) : charMatches(pattern[k], text[at + k - 1])

\* \b before the 1-based index at (at = Len(text) + 1 is the end of the text)
wordBoundary(text, at) ==
  LET before == at > 1 /\ IsWordChar(text[at - 1])
      after == at <= Len(text) /\ IsWordChar(text[at])
  IN  before # after

\* new RegExp(source, "i").test(text)
regexTest(source, text) ==
  \E at \in 1..(Len(text) + 1) : patternAt(text, source, at)

\* new RegExp("\\b" + source + "\\b", "i").test(text)
wordRegexTest(source, text) ==
  \E at \in 1..(Len(text) + 1) :
    /\ patternAt(text, source, at)
    /\ wordBoundary(text, at)
    /\ wordBoundary(text, at + Len(source))

\* new RegExp(source) throws a SyntaxError when a quantifier has nothing to
\* repeat; the queries the model draws hold a quantifier only at their start
regexThrows(source) == source # << >> /\ source[1] = "?"

\* { field: regex } of a MongoDB filter: the field exists and the regex matches
fieldMatches(value, source) == value # << >> /\ regexTest(source, value)

fieldMatchesWord(value, source) == value # << >> /\ wordRegexTest(source, value)

-----------------------------------------------------------------------------
(* The documents the store may hold and the queries a caller may send *)

\* Image documents with the author populated; author.present is FALSE when
\* populate finds no user for the reference
Corpus ==
  {
    [_id |-> 1,
     title |-> << "B", "l", "u", "r" >>,
     transformationType |-> << "b", "l", "u", "r" >>,
     prompt |-> << >>,
     color |-> << >>,
     aspectRatio |-> << "1", ":", "1" >>,
     publicId |-> << "p", "1" >>,
     author |-> [present |-> TRUE, firstName |-> << "A", "n", "n" >>, lastName |-> << "L", "e", "e" >>],
     updatedAt |-> 3],
    [_id |-> 2,
     title |-> << "b", "l", "u", "r", " ", "c", "a", "t" >>,
     transformationType |-> << "b", "l", "u", "r" >>,
     prompt |-> << >>,
     color |-> << >>,
     aspectRatio |-> << "1", ":", "1" >>,
     publicId |-> << "p", "2" >>,
     author |-> [present |-> TRUE, firstName |-> << "A", "n", "n" >>, lastName |-> << "L", "e", "e" >>],
     updatedAt |-> 3],
    [_id |-> 3,
     title |-> << "C", "a", "t" >>,
     transformationType |-> << "r", "e", "m", "o", "v", "e", "B", "a", "c", "k", "g", "r", "o", "u", "n", "d" >>,
     prompt |-> << "a", " ", "r", "e", "d", " ", "c", "a", "t" >>,
     color |-> << "r", "e", "d" >>,
     aspectRatio |-> << >>,
     publicId |-> << "p", "3" >>,
     author |-> [present |-> FALSE, firstName |-> << >>, lastName |-> << >>],
     updatedAt |-> 2],
    [_id |-> 4,
     title |-> << "c", "a", "t" >>,
     transformationType |-> << "f", "i", "l", "l" >>,
     prompt |-> << >>,
     color |-> << >>,
     aspectRatio |-> << >>,
     publicId |-> << "c", "a", "t", "4" >>,
     author |-> [present |-> TRUE, firstName |-> << >>, lastName |-> << "C", "a", "t", "t" >>],
     updatedAt |-> 1],
    [_id |-> 5,
     title |-> << "c", "a", "t" >>,
     transformationType |-> << "f", "i", "l", "l" >>,
     prompt |-> << >>,
     color |-> << >>,
     aspectRatio |-> << >>,
     publicId |-> << "c", "a", "t", "5" >>,
     author |-> [present |-> TRUE, firstName |-> << >>, lastName |-> << "C", "a", "t", "t" >>],
     updatedAt |-> 2],
    [_id |-> 6,
     title |-> << >>,
     transformationType |-> << >>,
     prompt |-> << "B", "l", "u", "r", " ", "i", "t" >>,
     color |-> << >>,
     aspectRatio |-> << >>,
     publicId |-> << "p", "6" >>,
     author |-> [present |-> TRUE, firstName |-> << >>, lastName |-> << >>],
     updatedAt |-> 3]
  }

Queries ==
  { << >>,
    << "?", "?", "?" >>,
    << "b", "l", "u", "r" >>,
    << "B", "l", "u", "r", "!" >>,
    << "c", "a", "t" >>,
    << "'", "c", "a", "t", "'" >>,
    << "a", "n", "n" >>,
    << "r", "e", "d" >>,
    << "r", "e", "m", "o", "v", "e" >>,
    << "b", "a", "c", "k", "g", "r", "o", "u", "n", "d" >>,
    << "c", ".", "t" >>,
    << "c", "a", "t", "4" >> }

DefaultLimit == 9

DefaultPage == 1

\* let nextCursor: string | undefined = undefined
NoCursor == "undefined"

NoResult == [data |-> << >>, totalPages |-> 0, savedImages |-> 0]

-----------------------------------------------------------------------------
(* The store queries of getAllImages *)

\* Math.floor in the place of Math.ceil
floorDiv(n, d) == n \div d

\* Math.ceil(n / d) for n >= 0, d > 0
ceilDiv(n, d) == IF n % d = 0 THEN n \div d ELSE (n \div d) + 1

\* { $or: [{ title: { $regex: searchQuery, $options: "i" } }, { transformationType: ... }] }
fallbackFilter(image, q) ==
  \/ fieldMatches(image.title, q)
  \/ fieldMatches(image.transformationType, q)

\* $expr / $regexMatch on "$author.firstName" and "$author.lastName": the stored
\* author is an ObjectId reference (addImage stores author._id, populate runs
\* after the find), so both inputs are missing and $regexMatch answers false
authorFilter(image, q) == FALSE

\* const searchFilter = { $or: searchFilterConditions }
searchFilter(image, q, tv, sv) ==
  \/ fieldMatchesWord(image.title, q)
  \/ fieldMatchesWord(image.transformationType, q)
  \/ fieldMatchesWord(image.prompt, q)
  \/ fieldMatchesWord(image.aspectRatio, q)
  \/ fieldMatchesWord(image.color, q)
  \/ fieldMatches(image.title, q)
  \/ fieldMatches(image.transformationType, q)
  \/ fieldMatches(image.prompt, q)
  \/ fieldMatches(image.aspectRatio, q)
  \/ fieldMatches(image.color, q)
  \/ fieldMatches(image.publicId, q)
  \/ authorFilter(image, q)
  \/ \E k \in 1..Len(tv) : fieldMatches(image.transformationType, tv[k])
  \/ \E k \in 1..Len(sv) :
       \/ fieldMatches(image.title, sv[k])
       \/ fieldMatches(image.transformationType, sv[k])
       \/ fieldMatches(image.prompt, sv[k])

\* Image.find(filter) without a sort: the documents of the collection that
\* are among the matching ones, in natural order
find(images, matching) == SelectSeq(images, LAMBDA image : image \in matching)

\* Image.find(filter).countDocuments()
countDocuments(images, matching) == Len(find(images, matching))

\* .sort({ updatedAt: -1 }): the orders MongoDB may return, documents with equal
\* updatedAt in any relative order
sortedByUpdatedAt(images) ==
  { [i \in 1..Len(images) |-> images[f[i]]] :
      f \in { g \in [1..Len(images) -> 1..Len(images)] :
                /\ \A i, j \in 1..Len(images) : i # j => g[i] # g[j]
                /\ \A i, j \in 1..Len(images) :
                     i < j => images[g[i]].updatedAt >= images[g[j]].updatedAt } }

\* .skip(skipAmount).limit(limit)
skipLimit(images, skipAmount, lim) == slice(images, skipAmount, skipAmount + lim)

-----------------------------------------------------------------------------
(* The relevance score of one fetched image *)

\* a title check without the exact tier
titleScoreNoExact(image, query) ==
  IF image.title # << >> /\ includes(toLowerCase(image.title), query) THEN 50 ELSE 0

\* a title check that tries the word-start tier before the contains tier
titleScoreWordStartFirst(image, query) ==
  IF image.title # << >>
    THEN LET titleLower == toLowerCase(image.title)
         IN  IF titleLower = query THEN 100
             ELSE IF \E word \in split(titleLower) : startsWith(word, query) THEN 25
             ELSE IF includes(titleLower, query) THEN 50
             ELSE 0
    ELSE 0

titleScore(image, query) ==
  IF image.title # << >>
    THEN LET titleLower == toLowerCase(image.title)
         IN  IF titleLower = query THEN 100
             ELSE IF includes(titleLower, query) THEN 50
             ELSE IF \E word \in split(titleLower) : startsWith(word, query) THEN 25
             ELSE 0
    ELSE 0

\* a transformationType check that adds the alias bonus on top
typeScoreBonusOnTop(image, query, tv) ==
  IF image.transformationType # << >>
    THEN LET typeLower == toLowerCase(image.transformationType)
         IN  (IF typeLower = query THEN 80
              ELSE IF includes(typeLower, query) THEN 40
              ELSE 0)
             + (IF \E k \in 1..Len(tv) : includes(typeLower, toLowerCase(tv[k]))
                  THEN 35 ELSE 0)
    ELSE 0

typeScore(image, query, tv) ==
  IF image.transformationType # << >>
    THEN LET typeLower == toLowerCase(image.transformationType)
         IN  IF typeLower = query THEN 80
             ELSE IF includes(typeLower, query) THEN 40
             ELSE IF \E k \in 1..Len(tv) : includes(typeLower, toLowerCase(tv[k])) THEN 35
             ELSE 0
    ELSE 0

\* a prompt check that looks for the query with its case kept
promptScoreCaseSensitive(image, query) ==
  IF image.prompt # << >> /\ includes(image.prompt, query) THEN 30 ELSE 0

promptScore(image, query) ==
  IF image.prompt # << >> /\ includes(toLowerCase(image.prompt), query) THEN 30 ELSE 0

colorScore(image, query) ==
  IF image.color # << >> /\ includes(toLowerCase(image.color), query) THEN 20 ELSE 0

aspectScore(image, query) ==
  IF image.aspectRatio # << >> /\ includes(toLowerCase(image.aspectRatio), query) THEN 15 ELSE 0

authorScore(image, query) ==
  IF image.author.present
      /\ \/ includes(toLowerCase(image.author.firstName), query)
         \/ includes(toLowerCase(image.author.lastName), query)
    THEN 35
    ELSE 0

\* a scorer that also gives points for the query in publicId
scoreWithPublicId(image, query, tv) ==
  titleScore(image, query) + typeScore(image, query, tv) + promptScore(image, query)
    + colorScore(image, query) + aspectScore(image, query) + authorScore(image, query)
    + (IF includes(toLowerCase(image.publicId), query) THEN 10 ELSE 0)

\* the body of allMatchingImages.map(...): let score = 0; score += ...
score(image, query, tv) ==
  titleScore(image, query) + typeScore(image, query, tv) + promptScore(image, query)
    + colorScore(image, query) + aspectScore(image, query) + authorScore(image, query)

\* { ...image, _score: score }
withScore(image, query, tv) == [image |-> image, score |-> score(image, query, tv)]

\* a comparator that leaves equal scores as they came
compareScoredScoreOnly(a, b) == b.score - a.score

\* the comparator of scoredImages.sort: negative when a goes before b
compareScored(a, b) ==
  IF b.score # a.score
    THEN b.score - a.score
    ELSE b.image.updatedAt - a.image.updatedAt

\* Array.prototype.sort is stable: x goes after every element that does not
\* compare greater than it
RECURSIVE insertScored(_, _)
insertScored(sorted, x) ==
  IF sorted = << >> THEN << x >>
  ELSE IF compareScored(Head(sorted), x) > 0
    THEN << x >> \o sorted
    ELSE << Head(sorted) >> \o insertScored(Tail(sorted), x)

RECURSIVE sortScored(_)
sortScored(images) ==
  IF images = << >> THEN << >>
  ELSE insertScored(sortScored(SubSeq(images, 1, Len(images) - 1)), images[Len(images)])

\* paginatedImages.map(({ _score, ...image }) => image)
stripScore(scored) == [i \in 1..Len(scored) |-> scored[i].image]

\* no fetchAllCloudinaryPublicIds call is running: its locals as declared
fetchUnused ==
  /\ nextCursor = NoCursor
  /\ fetchedSoFar = 0
  /\ publicIds = 0

\* no user action is running and no user is stored
usersUnused ==
  /\ users = << >>
  /\ uniqueClerkId = TRUE
  /\ calls = << >>

\* no Search component is mounted
searchUnused ==
  /\ inputQuery = << >>
  /\ urlQuery = << >>
  /\ timers = << >>
  /\ navigations = << >>
  /\ changes = 0


-----------------------------------------------------------------------------
(* The requests: one getAllImages call at a time, split at its awaits *)

Init ==
  /\ store = << >>
  /\ cloudinaryConfigured \in BOOLEAN
  /\ pc = "idle"
  /\ limit = DefaultLimit
  /\ page = DefaultPage
  /\ searchQuery = << >>
  /\ maxLen = DefaultMaxLen
  /\ sanitizedQuery = << >>
  /\ transformationVariations = << >>
  /\ searchVariations = << >>
  /\ scoredImages = << >>
  /\ path = "none"
  /\ result = NoResult
  /\ filterText = << >>
  /\ storeError = FALSE
  /\ firstResult = NoResult
  /\ fetchUnused
  /\ searchUnused
  /\ usersUnused

\* addImage: Image.create({ ...image, author })
addImage(image) ==
  /\ pc = "idle"
  /\ Len(store) < MaxStore
  /\ \A i \in 1..Len(store) : store[i] # image
  /\ store' = Append(store, image)
  /\ UNCHANGED << cloudinaryConfigured, pc, limit, page, searchQuery, maxLen,
                  sanitizedQuery, transformationVariations, searchVariations,
                  scoredImages, path, result,
                  filterText, storeError, firstResult, fetchVars, searchVars,
                  userVars >>

\* getAllImages({ limit, page, searchQuery }) up to await connectToDatabase()
getAllImages(l, p, q) ==
  /\ pc = "idle"
  /\ limit' = l
  /\ page' = p
  /\ searchQuery' = q
  /\ pc' = "connecting"
  /\ UNCHANGED << store, cloudinaryConfigured, maxLen, sanitizedQuery,
                  transformationVariations, searchVariations, scoredImages,
                  path, result,
                  filterText, storeError, firstResult, fetchVars, searchVars,
                  userVars >>

\* connectToDatabase() resolves
connectToDatabase ==
  /\ pc = "connecting"
  /\ pc' = "connected"
  /\ UNCHANGED << store, cloudinaryConfigured, limit, page, searchQuery, maxLen,
                  sanitizedQuery, transformationVariations, searchVariations,
                  scoredImages, path, result,
                  filterText, storeError, firstResult, fetchVars, searchVars,
                  userVars >>

\* if (!cloudName || !apiKey || !apiSecret) { ... }: the regular expression is
\* built from the raw searchQuery; a SyntaxError goes to the catch block
fallbackSearch ==
  /\ pc = "connected"
  /\ ~cloudinaryConfigured
  /\ filterText' = searchQuery
  /\ path' = "fallback"
  /\ IF regexThrows(searchQuery)
       THEN /\ pc' = "failed"
            /\ UNCHANGED result
       ELSE LET skipAmount == (page - 1) * limit
                matching == { image \in Range(store) : fallbackFilter(image, searchQuery) }
                totalImages == countDocuments(store, matching)
            IN  /\ \E images \in sortedByUpdatedAt(find(store, matching)) :
                     result' = [data |-> skipLimit(images, skipAmount, limit),
                                totalPages |-> Max(1, ceilDiv(totalImages, limit)),
                                savedImages |-> countDocuments(store, Range(store))]
                /\ pc' = "done"
  /\ UNCHANGED << store, cloudinaryConfigured, limit, page, searchQuery, maxLen,
                  sanitizedQuery, transformationVariations, searchVariations,
                  scoredImages, storeError, firstResult, fetchVars, searchVars,
                  userVars >>

\* if (!searchQuery) { ... }
noQueryPath ==
  /\ pc = "connected"
  /\ cloudinaryConfigured
  /\ searchQuery = << >>
  /\ path' = "noquery"
  /\ LET skipAmount == (page - 1) * limit
         totalImages == countDocuments(store, Range(store))
     IN  \E images \in sortedByUpdatedAt(find(store, Range(store))) :
           result' = [data |-> skipLimit(images, skipAmount, limit),
                      totalPages |-> Max(1, ceilDiv(totalImages, limit)),
                      savedImages |-> totalImages]
  /\ pc' = "done"
  /\ UNCHANGED << store, cloudinaryConfigured, limit, page, searchQuery, maxLen,
                  sanitizedQuery, transformationVariations, searchVariations,
                  scoredImages,
                  filterText, storeError, firstResult, fetchVars, searchVars,
                  userVars >>

\* the query path up to await populateUser(Image.find(searchFilter)).lean()
buildSearchFilter ==
  /\ pc = "connected"
  /\ cloudinaryConfigured
  /\ searchQuery # << >>
  /\ filterText' = sanitizeQuery(searchQuery, maxLen)
  /\ path' = "query"
  /\ LET cleaned == sanitizeQuery(searchQuery, maxLen)
         queryLower == toLowerCase(cleaned)
     IN  /\ sanitizedQuery' = cleaned
         /\ transformationVariations' = expandTransformations(queryLower)
         /\ searchVariations' = expandMisspellings(queryLower)
  /\ pc' = "finding"
  /\ UNCHANGED << store, cloudinaryConfigured, limit, page, searchQuery, maxLen,
                  scoredImages, result, storeError, firstResult, fetchVars,
                  searchVars,
                  userVars >>

\* the find resolves: score, sort, up to await Image.find().countDocuments()
scoreAndSort ==
  /\ pc = "finding"
  /\ LET matching ==
           { image \in Range(store) :
               searchFilter(image, sanitizedQuery, transformationVariations,
                            searchVariations) }
         allMatchingImages == find(store, matching)
         query == toLowerCase(sanitizedQuery)
     IN  scoredImages' =
           sortScored([i \in 1..Len(allMatchingImages) |->
                         withScore(allMatchingImages[i], query, transformationVariations)])
  /\ pc' = "counting"
  /\ UNCHANGED << store, cloudinaryConfigured, limit, page, searchQuery, maxLen,
                  sanitizedQuery, transformationVariations, searchVariations,
                  path, result,
                  filterText, storeError, firstResult, fetchVars, searchVars,
                  userVars >>

\* a return that reports the number of matches as savedImages
returnPageCountingMatches ==
  /\ pc = "counting"
  /\ LET skipAmount == (page - 1) * limit
         paginatedImages == slice(scoredImages, skipAmount, skipAmount + limit)
         totalImages == Len(scoredImages)
     IN  result' = [data |-> stripScore(paginatedImages),
                    totalPages |-> Max(1, ceilDiv(totalImages, limit)),
                    savedImages |-> totalImages]
  /\ pc' = "done"
  /\ UNCHANGED << store, cloudinaryConfigured, limit, page, searchQuery, maxLen,
                  sanitizedQuery, transformationVariations, searchVariations,
                  scoredImages, path,
                  filterText, storeError, firstResult, fetchVars, searchVars,
                  userVars >>

\* the count resolves: return { data, totalPages, savedImages }
returnPage ==
  /\ pc = "counting"
  /\ LET skipAmount == (page - 1) * limit
         paginatedImages == slice(scoredImages, skipAmount, skipAmount + limit)
         totalImages == Len(scoredImages)
     IN  result' = [data |-> stripScore(paginatedImages),
                    totalPages |-> Max(1, ceilDiv(totalImages, limit)),
                    savedImages |-> countDocuments(store, Range(store))]
  /\ pc' = "done"
  /\ UNCHANGED << store, cloudinaryConfigured, limit, page, searchQuery, maxLen,
                  sanitizedQuery, transformationVariations, searchVariations,
                  scoredImages, path,
                  filterText, storeError, firstResult, fetchVars, searchVars,
                  userVars >>

\* handleError(error) of lib/utils logs the error and throws a new Error, so
\* the call ends rejected: the position the catch block leaves the call in
handleError == "failed"

\* a catch block that answers with an empty page
storeFailsAnswersEmptyPage ==
  /\ pc \in { "connecting", "connected", "finding", "counting" }
  /\ pc = "connected" => (~cloudinaryConfigured \/ searchQuery = << >>)
  /\ storeError' = TRUE
  /\ result' = [data |-> << >>, totalPages |-> 1, savedImages |-> 0]
  /\ pc' = "done"
  /\ UNCHANGED << store, cloudinaryConfigured, limit, page, searchQuery, maxLen,
                  sanitizedQuery, transformationVariations, searchVariations,
                  scoredImages, path, filterText, firstResult, fetchVars,
                  searchVars,
                  userVars >>

\* an await inside the try rejects (connectToDatabase, a find or a
\* countDocuments): catch (error) { handleError(error); }
storeFails ==
  /\ pc \in { "connecting", "connected", "finding", "counting" }
  /\ pc = "connected" => (~cloudinaryConfigured \/ searchQuery = << >>)
  /\ storeError' = TRUE
  /\ pc' = handleError
  /\ UNCHANGED << store, cloudinaryConfigured, limit, page, searchQuery, maxLen,
                  sanitizedQuery, transformationVariations, searchVariations,
                  scoredImages, path, result, filterText, firstResult, fetchVars,
                  searchVars,
                  userVars >>

\* the caller has the answer; the locals of the call are gone
finish ==
  /\ pc \in { "done", "failed" }
  /\ pc' = "idle"
  /\ limit' = DefaultLimit
  /\ page' = DefaultPage
  /\ searchQuery' = << >>
  /\ sanitizedQuery' = << >>
  /\ transformationVariations' = << >>
  /\ searchVariations' = << >>
  /\ scoredImages' = << >>
  /\ path' = "none"
  /\ result' = NoResult
  /\ filterText' = << >>
  /\ storeError' = FALSE
  /\ UNCHANGED << store, cloudinaryConfigured, maxLen, firstResult, fetchVars,
                  searchVars,
                  userVars >>

Next ==
  \/ \E image \in Corpus : addImage(image)
  \/ \E l \in 1..MaxLimit, p \in 1..MaxPage, q \in Queries : getAllImages(l, p, q)
  \/ connectToDatabase
  \/ fallbackSearch
  \/ noQueryPath
  \/ buildSearchFilter
  \/ scoreAndSort
  \/ returnPage
  \/ storeFails
  \/ finish

Spec == Init /\ [][Next]_vars

-----------------------------------------------------------------------------
(* sanitizeQuery on its own: every short raw string, every small maxLen *)

RawAlphabet == { "a", "_", "-", ".", " ", "\t", "?", "\"", "'", Backtick, "\\", "/" }

RawStrings == UNION { [1..n -> RawAlphabet] : n \in 0..MaxRawLen }

InitSanitize ==
  /\ store = << >>
  /\ cloudinaryConfigured = TRUE
  /\ pc = "sanitize"
  /\ limit = DefaultLimit
  /\ page = DefaultPage
  /\ searchQuery \in RawStrings
  /\ maxLen \in 0..MaxLenArg
  /\ sanitizedQuery = << >>
  /\ transformationVariations = << >>
  /\ searchVariations = << >>
  /\ scoredImages = << >>
  /\ path = "none"
  /\ result = NoResult
  /\ filterText = << >>
  /\ storeError = FALSE
  /\ firstResult = NoResult
  /\ fetchUnused
  /\ searchUnused
  /\ usersUnused

\* const sanitizedQuery = sanitizeQuery(searchQuery, maxLen)
callSanitizeQuery ==
  /\ pc = "sanitize"
  /\ sanitizedQuery' = sanitizeQuery(searchQuery, maxLen)
  /\ pc' = "sanitized"
  /\ UNCHANGED << store, cloudinaryConfigured, limit, page, searchQuery, maxLen,
                  transformationVariations, searchVariations, scoredImages,
                  path, result,
                  filterText, storeError, firstResult, fetchVars, searchVars,
                  userVars >>

NextSanitize == callSanitizeQuery

SpecSanitize == InitSanitize /\ [][NextSanitize]_vars

-----------------------------------------------------------------------------
(* The same call made twice: after getAllImages has returned, the caller  *)
(* calls it again with the same arguments, the store left as it is        *)

TwiceQueries ==
  { << >>,
    << "c", "a", "t" >>,
    << "b", "l", "u", "r" >> }

\* getAllImages({ limit, page, searchQuery }) a second time, the first
\* answer kept by the caller
callAgain ==
  /\ pc = "done"
  /\ firstResult = NoResult
  /\ firstResult' = result
  /\ pc' = "connecting"
  /\ sanitizedQuery' = << >>
  /\ transformationVariations' = << >>
  /\ searchVariations' = << >>
  /\ scoredImages' = << >>
  /\ path' = "none"
  /\ result' = NoResult
  /\ filterText' = << >>
  /\ UNCHANGED << store, cloudinaryConfigured, limit, page, searchQuery, maxLen,
                  storeError, fetchVars, searchVars,
                  userVars >>

NextTwice ==
  \/ \E image \in Corpus : addImage(image)
  \/ \E l \in 1..MaxLimit, p \in 1..MaxPage, q \in TwiceQueries : getAllImages(l, p, q)
  \/ connectToDatabase
  \/ fallbackSearch
  \/ noQueryPath
  \/ buildSearchFilter
  \/ scoreAndSort
  \/ returnPage
  \/ callAgain

SpecTwice == Init /\ [][NextTwice]_vars

-----------------------------------------------------------------------------
(* fetchAllCloudinaryPublicIds: the do ... while loop over the pages of a   *)
(* Cloudinary search, one response per iteration                           *)

\* const safetyCap = 5000
safetyCap == 5000

\* maxPerRequest = 100
maxPerRequest == 100

\* the numbers of resources a response may carry: none (or no resources
\* array at all) or a full page
ResourceCounts == { 0, maxPerRequest }

\* the values of res?.next_cursor: absent, or a cursor
Cursors == { NoCursor, "cursor" }

InitFetch ==
  /\ store = << >>
  /\ cloudinaryConfigured = TRUE
  /\ pc = "execute"
  /\ limit = DefaultLimit
  /\ page = DefaultPage
  /\ searchQuery = << >>
  /\ maxLen = DefaultMaxLen
  /\ sanitizedQuery = << >>
  /\ transformationVariations = << >>
  /\ searchVariations = << >>
  /\ scoredImages = << >>
  /\ path = "none"
  /\ result = NoResult
  /\ filterText = << >>
  /\ storeError = FALSE
  /\ firstResult = NoResult
  /\ fetchUnused
  /\ searchUnused
  /\ usersUnused

\* the body of the loop once the search has answered: n resources, of which
\* withId have a public_id, and the next_cursor of the response
receiveResponse(n, withId, cursor) ==
  /\ pc = "execute"
  /\ publicIds' = IF n > 0 THEN publicIds + withId ELSE publicIds
  /\ fetchedSoFar' = IF n > 0 THEN fetchedSoFar + n ELSE fetchedSoFar
  /\ nextCursor' = cursor
  /\ pc' = IF fetchedSoFar' >= safetyCap THEN "returned" ELSE "while"
  /\ UNCHANGED << galleryVarsButPc, searchVars,
                  userVars >>

\* } while (nextCursor); return publicIds;
whileNextCursor ==
  /\ pc = "while"
  /\ pc' = IF nextCursor # NoCursor THEN "execute" ELSE "returned"
  /\ UNCHANGED << galleryVarsButPc, fetchVars, searchVars,
                  userVars >>

NextFetch ==
  \/ \E n \in ResourceCounts :
       \E withId \in { 0, n }, cursor \in Cursors : receiveResponse(n, withId, cursor)
  \/ whileNextCursor

\* every search is answered and the loop keeps running while it can
SpecFetch == InitFetch /\ [][NextFetch]_vars /\ WF_vars(NextFetch)

-----------------------------------------------------------------------------
(* The Search component: the query state, the query of the URL, the        *)
(* debounce timeout of the second effect and the navigations router.push   *)
(* has started. A render, the effects it runs and the render a setQuery    *)
(* inside an effect causes are one step: they are over long before a       *)
(* timeout of 300 ms set in them can fire.                                 *)

SearchTexts == { << >>, << "a" >>, << "b" >> }

\* return () => clearTimeout(delayDebounceFn): the timeout the last run of
\* the effect set is cleared, if it is still pending
clearTimeout(ts) == SelectSeq(ts, LAMBDA t : ~t.current)

\* an effect without the cleanup: the earlier timeout stays pending
debounceEffectNoCleanup(ts, q, u) ==
  Append([i \in 1..Len(ts) |-> [ts[i] EXCEPT !.current = FALSE]],
         [query |-> q, url |-> u, current |-> TRUE])

\* an effect whose cleanup runs and that sets no timeout
debounceEffectNoTimeout(ts, q, u) == clearTimeout(ts)

\* the second effect runs again for a render with query q and URL query u:
\* the cleanup of its last run, then setTimeout(() => { ... }, 300), the
\* callback closing over q and the searchParams of that render
debounceEffect(ts, q, u) ==
  Append(clearTimeout(ts), [query |-> q, url |-> u, current |-> TRUE])

\* the first effect for a render with query q and URL query u: the query
\* state after if (paramQuery !== query) setQuery(paramQuery)
syncEffect(q, u) == IF u # q THEN u ELSE q

\* const [query, setQuery] = useState(initialQuery), and both effects of
\* the first render
InitSearch ==
  /\ store = << >>
  /\ cloudinaryConfigured = TRUE
  /\ pc = "mounted"
  /\ limit = DefaultLimit
  /\ page = DefaultPage
  /\ searchQuery = << >>
  /\ maxLen = DefaultMaxLen
  /\ sanitizedQuery = << >>
  /\ transformationVariations = << >>
  /\ searchVariations = << >>
  /\ scoredImages = << >>
  /\ path = "none"
  /\ result = NoResult
  /\ filterText = << >>
  /\ storeError = FALSE
  /\ firstResult = NoResult
  /\ fetchUnused
  /\ urlQuery \in SearchTexts
  /\ inputQuery = urlQuery
  /\ timers = debounceEffect(<< >>, inputQuery, urlQuery)
  /\ navigations = << >>
  /\ changes = MaxChanges
  /\ usersUnused

\* onChange={(e) => setQuery(e.target.value)}: the render with the new
\* query runs the second effect again (the first depends on searchParams only)
onChange(value) ==
  /\ changes > 0
  /\ value # inputQuery
  /\ inputQuery' = value
  /\ timers' = debounceEffect(timers, value, urlQuery)
  /\ changes' = changes - 1
  /\ UNCHANGED << galleryVars, fetchVars, urlQuery, navigations,
                  userVars >>

\* the callback of the timeout number i runs: nothing when its query is
\* the query of its URL, else router.push(newUrl) with that query (or
\* without a query when it is empty)
delayDebounceFn(i) ==
  /\ i \in 1..Len(timers)
  /\ timers' = [k \in 1..(Len(timers) - 1) |-> IF k < i THEN timers[k] ELSE timers[k + 1]]
  /\ navigations' = IF timers[i].query = timers[i].url
                      THEN navigations
                      ELSE Append(navigations, timers[i].query)
  /\ UNCHANGED << galleryVars, fetchVars, inputQuery, urlQuery, changes,
                  userVars >>

\* the render for new searchParams with URL query u: the first effect sets
\* the query to u when it differs, the second effect runs for this render
\* and again for the render setQuery causes
searchParamsChange(u) ==
  /\ urlQuery' = u
  /\ inputQuery' = syncEffect(inputQuery, u)
  /\ timers' = IF inputQuery' # inputQuery
                 THEN debounceEffect(debounceEffect(timers, inputQuery, u), inputQuery', u)
                 ELSE debounceEffect(timers, inputQuery, u)

\* a navigation started by router.push lands; the same URL again gives the
\* same searchParams and no render
routerPushLands ==
  /\ navigations # << >>
  /\ navigations' = Tail(navigations)
  /\ IF Head(navigations) # urlQuery
       THEN searchParamsChange(Head(navigations))
       ELSE UNCHANGED << inputQuery, urlQuery, timers >>
  /\ UNCHANGED << galleryVars, fetchVars, changes,
                  userVars >>

\* back, forward or a link: the URL changes from outside the component (to
\* another query, or to the same query on another page)
historyNavigation(u) ==
  /\ changes > 0
  /\ searchParamsChange(u)
  /\ changes' = changes - 1
  /\ UNCHANGED << galleryVars, fetchVars, navigations,
                  userVars >>

NextSearch ==
  \/ \E value \in SearchTexts : onChange(value)
  \/ \E i \in 1..Len(timers) : delayDebounceFn(i)
  \/ routerPushLands
  \/ \E u \in SearchTexts : historyNavigation(u)

SpecSearch == InitSearch /\ [][NextSearch]_vars

\* a pending timeout fires and a started navigation lands
SpecSearchFair ==
  /\ SpecSearch
  /\ WF_vars(\E i \in 1..Len(timers) : delayDebounceFn(i))
  /\ WF_vars(routerPushLands)

-----------------------------------------------------------------------------
(* The scorer on one document that has a title only: a harness that draws *)
(* the title and the sanitized query and applies lines 351-398            *)

TitleAlphabet == { "a", "b", "A", " " }

TitleStrings == UNION { [1..n -> TitleAlphabet] : n \in 0..MaxTitleLen }

TitleQueries == UNION { [1..n -> { "a", "b", " " }] : n \in 0..MaxTitleQueryLen }

\* an Image document with no field but the title
titledImage(title) ==
  [_id |-> 1,
   title |-> title,
   transformationType |-> << >>,
   prompt |-> << >>,
   color |-> << >>,
   aspectRatio |-> << >>,
   publicId |-> << "p", "1" >>,
   author |-> [present |-> FALSE, firstName |-> << >>, lastName |-> << >>],
   updatedAt |-> 1]

InitTitle ==
  /\ \E title \in TitleStrings : store = << titledImage(title) >>
  /\ cloudinaryConfigured = TRUE
  /\ pc = "score"
  /\ limit = DefaultLimit
  /\ page = DefaultPage
  /\ searchQuery = << >>
  /\ maxLen = DefaultMaxLen
  /\ sanitizedQuery \in TitleQueries
  /\ transformationVariations = << >>
  /\ searchVariations = << >>
  /\ scoredImages = << >>
  /\ path = "none"
  /\ result = NoResult
  /\ filterText = << >>
  /\ storeError = FALSE
  /\ firstResult = NoResult
  /\ fetchUnused
  /\ searchUnused
  /\ usersUnused

\* allMatchingImages.map((image) => { ... return { ...image, _score: score } })
scoreImages ==
  /\ pc = "score"
  /\ scoredImages' = [i \in 1..Len(store) |->
                        withScore(store[i], toLowerCase(sanitizedQuery),
                                  transformationVariations)]
  /\ pc' = "scored"
  /\ UNCHANGED << store, cloudinaryConfigured, limit, page, searchQuery, maxLen,
                  sanitizedQuery, transformationVariations, searchVariations,
                  path, result, filterText, storeError, firstResult, fetchVars,
                  searchVars,
                  userVars >>

NextTitle == scoreImages

SpecTitle == InitTitle /\ [][NextTitle]_vars

-----------------------------------------------------------------------------
(* The user actions: getOrCreateUserByClerkId and createUser, called       *)
(* concurrently; each await is a step of its own. The User schema is not   *)
(* part of the sources read here, so whether it declares clerkId unique    *)
(* is left open: uniqueClerkId is either value from the start.             *)

ClerkIds == { "user_1", "user_2" }

Callers == 1..MaxCalls

\* a user with this clerkId is stored
stored(clerkId) == \E i \in 1..Len(users) : users[i] = clerkId

InitUsers ==
  /\ store = << >>
  /\ cloudinaryConfigured = TRUE
  /\ pc = "serving"
  /\ limit = DefaultLimit
  /\ page = DefaultPage
  /\ searchQuery = << >>
  /\ maxLen = DefaultMaxLen
  /\ sanitizedQuery = << >>
  /\ transformationVariations = << >>
  /\ searchVariations = << >>
  /\ scoredImages = << >>
  /\ path = "none"
  /\ result = NoResult
  /\ filterText = << >>
  /\ storeError = FALSE
  /\ firstResult = NoResult
  /\ fetchUnused
  /\ searchUnused
  /\ users = << >>
  /\ uniqueClerkId \in BOOLEAN
  /\ calls = [c \in Callers |-> [pc |-> "idle", clerkId |-> "none"]]

\* getOrCreateUserByClerkId(clerkId) up to await User.findOne({ clerkId })
getOrCreateUserByClerkId(c, clerkId) ==
  /\ calls[c].pc = "idle"
  /\ calls' = [calls EXCEPT ![c] = [pc |-> "findOne", clerkId |-> clerkId]]
  /\ UNCHANGED << galleryVars, fetchVars, searchVars, users, uniqueClerkId >>

\* the findOne resolves: if (existing) return ...; else on to Clerk
findOne(c) ==
  /\ calls[c].pc = "findOne"
  /\ calls' = [calls EXCEPT ![c].pc =
                 IF stored(calls[c].clerkId) THEN "returned" ELSE "getUser"]
  /\ UNCHANGED << galleryVars, fetchVars, searchVars, users, uniqueClerkId >>

\* cc.users.getUser resolves: throw when email or username is missing,
\* else on to await User.create({ clerkId, ... })
getUser(c, complete) ==
  /\ calls[c].pc = "getUser"
  /\ calls' = [calls EXCEPT ![c].pc = IF complete THEN "create" ELSE handleError]
  /\ UNCHANGED << galleryVars, fetchVars, searchVars, users, uniqueClerkId >>

\* createUser(user) of the user.created webhook up to await User.create(user)
createUser(c, clerkId) ==
  /\ calls[c].pc = "idle"
  /\ calls' = [calls EXCEPT ![c] = [pc |-> "create", clerkId |-> clerkId]]
  /\ UNCHANGED << galleryVars, fetchVars, searchVars, users, uniqueClerkId >>

\* User.create resolves with the new record, or rejects with a duplicate
\* key error when clerkId is unique and taken: catch, handleError
create(c) ==
  /\ calls[c].pc = "create"
  /\ IF uniqueClerkId /\ stored(calls[c].clerkId)
       THEN /\ calls' = [calls EXCEPT ![c].pc = handleError]
            /\ UNCHANGED users
       ELSE /\ users' = Append(users, calls[c].clerkId)
            /\ calls' = [calls EXCEPT ![c].pc = "returned"]
  /\ UNCHANGED << galleryVars, fetchVars, searchVars, uniqueClerkId >>

NextUsers ==
  \/ \E c \in Callers, clerkId \in ClerkIds : getOrCreateUserByClerkId(c, clerkId)
  \/ \E c \in Callers : findOne(c)
  \/ \E c \in Callers, complete \in BOOLEAN : getUser(c, complete)
  \/ \E c \in Callers, clerkId \in ClerkIds : createUser(c, clerkId)
  \/ \E c \in Callers : create(c)

SpecUsers == InitUsers /\ [][NextUsers]_vars

-----------------------------------------------------------------------------
(* The two expansions of the query path on their own: a harness that draws *)
(* a query of up to MaxWords words and applies lines 245 and 266-293       *)

ExpandWords ==
  { << "r", "e", "m", "o", "v", "e" >>,
    << "r", "e", "m", "v", "o", "e" >>,
    << "b", "g" >>,
    << "r", "e", "m", "o", "v", "e", "b", "g" >>,
    << "g", "e", "n", "e", "r", "a", "t", "i", "v", "e" >>,
    << "g", "e", "n" >>,
    << "o", "i", "l", "P", "a", "i", "n", "t" >>,
    << "r", "e", "m", "o", "v", "e", "B", "a", "c", "k", "g", "r", "o", "u", "n", "d" >>,
    << "B", "l", "u", "r" >>,
    << "s", "h", "a", "r", "p", "n" >>,
    << "s", "h", "a", "r", "p", "e", "n" >>,
    << "f", "i", "x" >>,
    << "c", "o", "l", "o", "u", "r" >>,
    << "g", "r", "e", "y" >>,
    << "b", "a", "c", "k", "g", "r", "o", "u", "n", "d" >> }

RECURSIVE joinWords(_)
joinWords(words) ==
  IF words = << >> THEN << >>
  ELSE IF Len(words) = 1 THEN words[1]
  ELSE words[1] \o << " " >> \o joinWords(Tail(words))

ExpandQueries == { joinWords(words) : words \in UNION { [1..n -> ExpandWords] : n \in 0..MaxWords } }

InitExpand ==
  /\ store = << >>
  /\ cloudinaryConfigured = TRUE
  /\ pc = "expand"
  /\ limit = DefaultLimit
  /\ page = DefaultPage
  /\ searchQuery \in ExpandQueries
  /\ maxLen = DefaultMaxLen
  /\ sanitizedQuery = << >>
  /\ transformationVariations = << >>
  /\ searchVariations = << >>
  /\ scoredImages = << >>
  /\ path = "none"
  /\ result = NoResult
  /\ filterText = << >>
  /\ storeError = FALSE
  /\ firstResult = NoResult
  /\ fetchUnused
  /\ searchUnused
  /\ usersUnused

\* sanitizedQuery, queryLower and the loop over transformationTypeMap
expandTransformationTypes ==
  /\ pc = "expand"
  /\ LET cleaned == sanitizeQuery(searchQuery, maxLen)
     IN  /\ sanitizedQuery' = cleaned
         /\ transformationVariations' = expandTransformations(toLowerCase(cleaned))
  /\ pc' = "expandedTypes"
  /\ UNCHANGED << store, cloudinaryConfigured, limit, page, searchQuery, maxLen,
                  searchVariations, scoredImages, path, result,
                  filterText, storeError, firstResult, fetchVars, searchVars,
                  userVars >>

\* the loop over commonMisspellings that fills searchVariations
expandSpellings ==
  /\ pc = "expandedTypes"
  /\ searchVariations' = expandMisspellings(toLowerCase(sanitizedQuery))
  /\ pc' = "expanded"
  /\ UNCHANGED << store, cloudinaryConfigured, limit, page, searchQuery, maxLen,
                  sanitizedQuery, transformationVariations, scoredImages, path, result,
                  filterText, storeError, firstResult, fetchVars, searchVars,
                  userVars >>

NextExpand ==
  \/ expandTransformationTypes
  \/ expandSpellings

SpecExpand == InitExpand /\ [][NextExpand]_vars

-----------------------------------------------------------------------------
(* Properties of sanitizeQuery, checked under SpecSanitize *)

\* sanitizeQuery with a maxLen that truncates nothing
cleanedWhole == sanitizeQuery(searchQuery, Len(searchQuery))

\* C9: the output of sanitizeQuery holds only word characters, spaces,
\* hyphens, underscores and periods, and so none of the double quote, single
\* quote, backtick, backslash and forward slash.
C9_OnlyAllowedCharacters ==
  pc = "sanitized" =>
    \A i \in 1..Len(sanitizedQuery) :
      /\ \/ IsWordChar(sanitizedQuery[i])
         \/ sanitizedQuery[i] \in { " ", "-", "_", "." }
      /\ sanitizedQuery[i] \notin { "\"", "'", Backtick, "\\", "/" }

\* a raw string holding a stripped character, a replaced one and a tab was
\* sanitized to a non-empty string
C9_Witness ==
  /\ pc = "sanitized"
  /\ sanitizedQuery # << >>
  /\ \E i \in 1..Len(searchQuery) : IsStrippedChar(searchQuery[i])
  /\ \E i \in 1..Len(searchQuery) : searchQuery[i] \in { "?", "\t" }

\* C10: the length of sanitizeQuery(raw, maxLen) is at most maxLen, and the
\* truncation comes last: the output is the first maxLen characters of the
\* stripped, replaced, collapsed and trimmed string, so an output shorter
\* than maxLen has lost nothing.
C10_LengthBoundTruncationLast ==
  pc = "sanitized" =>
    /\ Len(sanitizedQuery) <= maxLen
    /\ Len(sanitizedQuery) <= Len(cleanedWhole)
    /\ \A i \in 1..Len(sanitizedQuery) : sanitizedQuery[i] = cleanedWhole[i]
    /\ Len(sanitizedQuery) < maxLen => sanitizedQuery = cleanedWhole

\* a raw string with leading whitespace whose cleaned form is longer than
\* maxLen was cut to exactly maxLen characters
C10_Witness ==
  /\ pc = "sanitized"
  /\ maxLen > 0
  /\ Len(cleanedWhole) > maxLen
  /\ Len(sanitizedQuery) = maxLen
  /\ IsSpaceChar(searchQuery[1])

\* C11: the output of sanitizeQuery has its whitespace collapsed and trimmed:
\* it never begins or ends with a space and never holds two adjacent
\* whitespace characters, so spaces occur only internally.
C11_CollapsedAndTrimmed ==
  pc = "sanitized" /\ sanitizedQuery # << >> =>
    /\ ~IsSpaceChar(sanitizedQuery[1])
    /\ ~IsSpaceChar(sanitizedQuery[Len(sanitizedQuery)])
    /\ \A i \in 1..(Len(sanitizedQuery) - 1) :
         ~(IsSpaceChar(sanitizedQuery[i]) /\ IsSpaceChar(sanitizedQuery[i + 1]))

-----------------------------------------------------------------------------
(* Properties of the two expansions, checked under SpecExpand *)

\* sub is a contiguous part of text
Contains(text, sub) ==
  \E from \in 1..(Len(text) + 1) :
    /\ from + Len(sub) - 1 <= Len(text)
    /\ SubSeq(text, from, from + Len(sub) - 1) = sub

\* the lowercased query the expansions look into
expansionQuery == toLowerCase(sanitizedQuery)

\* the words of one table entry: its key and its listed forms
EntryWords(e) == { e.key } \cup Range(e.variations)

\* the words of a table entry that are in a list
EntryWordsIn(e, list) == EntryWords(e) \cap Range(list)

\* the query contains one of the listed forms of the entry
ContainsListed(q, e) == \E w \in Range(e.variations) : Contains(q, w)

\* C12: for every entry of the misspelling table: if the lowercased query
\* contains the canonical form, exactly the entry's misspellings are added
\* to the spelling variations; otherwise, if it contains a listed
\* misspelling, the canonical form is added; otherwise nothing is added for
\* the entry. Nothing else is in the spelling variations.
C12_SpellingVariations ==
  pc = "expanded" =>
    /\ \A i \in 1..Len(commonMisspellings) :
         LET e == commonMisspellings[i]
             added == EntryWordsIn(e, searchVariations)
         IN  IF Contains(expansionQuery, e.key) THEN added = Range(e.variations)
             ELSE IF ContainsListed(expansionQuery, e) THEN added = { e.key }
             ELSE added = { }
    /\ \A k \in 1..Len(searchVariations) :
         \E i \in 1..Len(commonMisspellings) :
           searchVariations[k] \in EntryWords(commonMisspellings[i])

\* the query "remvoe bg" got the canonical forms "remove" and "background",
\* and no misspelling
C12_Witness ==
  /\ pc = "expanded"
  /\ expansionQuery = << "r", "e", "m", "v", "o", "e", " ", "b", "g" >>
  /\ searchVariations = << << "r", "e", "m", "o", "v", "e" >>,
                           << "b", "a", "c", "k", "g", "r", "o", "u", "n", "d" >> >>

\* the query contains the key of the entry or, case-insensitively, one of
\* its listed variations
Triggered(q, e) ==
  \/ Contains(q, e.key)
  \/ \E v \in Range(e.variations) : Contains(q, toLowerCase(v))

\* the loop over the alias table has run
TypesExpanded == pc \in { "expandedTypes", "expanded" }

\* C13 as stated: for every key of the alias table, all of the key's
\* variations are in transformationVariations if and only if the lowercased
\* query contains the key or contains, case-insensitively, one of the key's
\* listed variations.
C13_AllVariationsIffTriggered ==
  TypesExpanded =>
    \A i \in 1..Len(transformationTypeMap) :
      LET e == transformationTypeMap[i]
      IN  Range(e.variations) \subseteq Range(transformationVariations)
            <=> Triggered(expansionQuery, e)

\* C13 as amended: for every key of the alias table, if the lowercased query
\* contains the key or contains, case-insensitively, one of the key's listed
\* variations (the camelCase ones included), all of the key's variations
\* are in transformationVariations; and every member of
\* transformationVariations is a variation of a key for which that holds.
C13_TriggeredKeysContribute ==
  TypesExpanded =>
    /\ \A i \in 1..Len(transformationTypeMap) :
         LET e == transformationTypeMap[i]
         IN  Triggered(expansionQuery, e)
               => Range(e.variations) \subseteq Range(transformationVariations)
    /\ \A k \in 1..Len(transformationVariations) :
         \E i \in 1..Len(transformationTypeMap) :
           /\ Triggered(expansionQuery, transformationTypeMap[i])
           /\ transformationVariations[k] \in Range(transformationTypeMap[i].variations)

\* the query "removebg" got the camelCase variation "removeBackground"
C13_Witness ==
  /\ TypesExpanded
  /\ expansionQuery = << "r", "e", "m", "o", "v", "e", "b", "g" >>
  /\ << "r", "e", "m", "o", "v", "e", "B", "a", "c", "k", "g", "r", "o", "u", "n", "d" >>
       \in Range(transformationVariations)

-----------------------------------------------------------------------------
(* Properties of fetchAllCloudinaryPublicIds, checked under SpecFetch *)

\* C18: fetchAllCloudinaryPublicIds terminates for every sequence of
\* responses, also when the responses carry a next_cursor and empty or
\* missing resources: the loop cannot run forever.
C18_FetchTerminates == <>(pc = "returned")

-----------------------------------------------------------------------------
(* Properties of the Search component *)

\* every pending timeout was set for the query and the URL query of now
TimersAreCurrent ==
  \A i \in 1..Len(timers) :
    timers[i].query = inputQuery /\ timers[i].url = urlQuery

\* a step that issues a router.push is the firing of a timeout, with the
\* query different from the query of the URL, and it pushes the query
PushOnlyByTimer ==
  Len(navigations') > Len(navigations) =>
    /\ Len(timers') < Len(timers)
    /\ inputQuery # urlQuery
    /\ navigations' = Append(navigations, inputQuery)
    /\ UNCHANGED << inputQuery, urlQuery >>

\* C19: every change of the query or of the URL search params cancels the
\* pending timeout before a new one is set, so at most one timeout is
\* pending and it belongs to the last change; router.push is issued only
\* when a timeout fires with no such change since it was set, and never
\* when the query is the query of the URL. Checked under SpecSearch.
C19_OneTimerPushOnlyOnFire ==
  /\ [](Len(timers) <= 1 /\ TimersAreCurrent)
  /\ [][PushOnlyByTimer]_vars

\* after a change of the query a timeout has fired and pushed a navigation
\* that has not landed yet, and the user has typed again since
C19_Witness ==
  /\ navigations # << >>
  /\ Len(timers) = 1
  /\ inputQuery # urlQuery
  /\ inputQuery # navigations[Len(navigations)]

\* the input shows the query of the URL and nothing is pending
Quiescent ==
  /\ inputQuery = urlQuery
  /\ timers = << >>
  /\ navigations = << >>

\* C20: when timeouts fire and pushed navigations land, the component
\* reaches, once the user has stopped, a state in which the input is the
\* query of the URL and no router.push is issued any more; the two effects
\* do not drive each other without end. Checked under SpecSearchFair.
C20_ReachesQuiescence == <>[]Quiescent

\* the user has stopped while the input differs from the query of the URL,
\* a navigation is on its way and a timeout is pending
C20_Witness ==
  /\ changes = 0
  /\ inputQuery # urlQuery
  /\ navigations # << >>
  /\ timers # << >>

-----------------------------------------------------------------------------
(* Properties of the scorer, checked under Spec *)

\* the query path has scored and sorted the fetched images
Scored == path = "query" /\ pc \in { "counting", "done" }

\* const query = sanitizedQuery.toLowerCase()
scoringQuery == toLowerCase(sanitizedQuery)

\* two documents that differ at most in their title (and in what names the
\* document: _id, publicId)
SameExceptTitle(a, b) ==
  /\ a.transformationType = b.transformationType
  /\ a.prompt = b.prompt
  /\ a.color = b.color
  /\ a.aspectRatio = b.aspectRatio
  /\ a.author = b.author
  /\ a.updatedAt = b.updatedAt

\* the first title equals the query in lowercase, the second only contains it
ExactAgainstContaining(a, b) ==
  /\ SameExceptTitle(a.image, b.image)
  /\ toLowerCase(a.image.title) = scoringQuery
  /\ toLowerCase(b.image.title) # scoringQuery
  /\ Contains(toLowerCase(b.image.title), scoringQuery)

\* C1 as stated: a record whose lowercased title equals the query scores at
\* least 100 more than an otherwise identical record whose title only
\* contains the query.
C1_ExactTitleLeadsBy100 ==
  Scored =>
    \A i, j \in 1..Len(scoredImages) :
      ExactAgainstContaining(scoredImages[i], scoredImages[j])
        => scoredImages[i].score - scoredImages[j].score >= 100

\* C1 as amended: a record with a non-empty title whose lowercase equals the
\* query scores exactly 50 more (100 against 50) than an otherwise identical
\* record whose title only contains the query.
C1_ExactTitleLeadsBy50 ==
  Scored =>
    \A i, j \in 1..Len(scoredImages) :
      /\ ExactAgainstContaining(scoredImages[i], scoredImages[j])
      /\ scoredImages[i].image.title # << >>
      => scoredImages[i].score - scoredImages[j].score = 50

\* both records of such a pair were fetched and scored
C1_Witness ==
  /\ Scored
  /\ \E i, j \in 1..Len(scoredImages) :
       /\ ExactAgainstContaining(scoredImages[i], scoredImages[j])
       /\ scoredImages[i].image.title # << >>

\* the per-field contributions as the specification's table gives them; a
\* field that is absent contributes 0
TitlePoints(image, q) ==
  LET t == toLowerCase(image.title)
  IN  CASE image.title = << >> -> 0
        [] image.title # << >> /\ t = q -> 100
        [] image.title # << >> /\ t # q /\ Contains(t, q) -> 50
        [] image.title # << >> /\ t # q /\ ~Contains(t, q)
             /\ (\E w \in split(t) : Len(w) >= Len(q) /\ SubSeq(w, 1, Len(q)) = q) -> 25
        [] OTHER -> 0

TypeMatchPoints(image, q) ==
  LET t == toLowerCase(image.transformationType)
  IN  CASE image.transformationType = << >> -> 0
        [] image.transformationType # << >> /\ t = q -> 80
        [] image.transformationType # << >> /\ t # q /\ Contains(t, q) -> 40
        [] OTHER -> 0

ContainsVariation(image) ==
  /\ image.transformationType # << >>
  /\ \E k \in 1..Len(transformationVariations) :
       Contains(toLowerCase(image.transformationType),
                toLowerCase(transformationVariations[k]))

\* the alias bonus as an independent addition
AliasBonus(image) == IF ContainsVariation(image) THEN 35 ELSE 0

\* the alias bonus as the last tier of the transformationType check
AliasTier(image, q) ==
  IF ContainsVariation(image) /\ TypeMatchPoints(image, q) = 0 THEN 35 ELSE 0

FieldPoints(value, q, points) ==
  IF value # << >> /\ Contains(toLowerCase(value), q) THEN points ELSE 0

AuthorPoints(image, q) ==
  IF image.author.present
      /\ \/ Contains(toLowerCase(image.author.firstName), q)
         \/ Contains(toLowerCase(image.author.lastName), q)
    THEN 35
    ELSE 0

\* everything but the transformationType contributions
OtherPoints(image, q) ==
  TitlePoints(image, q) + FieldPoints(image.prompt, q, 30) + AuthorPoints(image, q)
    + FieldPoints(image.color, q, 20) + FieldPoints(image.aspectRatio, q, 15)

\* C3 as stated: the score is the sum of the independent per-field
\* contributions (title 100/50/25, transformationType 80/40, prompt 30,
\* author 35, color 20, aspectRatio 15) plus the alias bonus, a non-negative
\* integer.
C3_ScoreIsSumWithIndependentBonus ==
  Scored =>
    \A i \in 1..Len(scoredImages) :
      LET image == scoredImages[i].image
      IN  /\ scoredImages[i].score \in Nat
          /\ scoredImages[i].score =
               OtherPoints(image, scoringQuery) + TypeMatchPoints(image, scoringQuery)
                 + AliasBonus(image)

\* C3 as amended: the score is the sum of the per-field contributions, where
\* the transformationType contributes 80 if equal, else 40 if it contains the
\* query, else 35 if it contains a transformation variation; a non-negative
\* integer.
C3_ScoreIsSumOfFieldPoints ==
  Scored =>
    \A i \in 1..Len(scoredImages) :
      LET image == scoredImages[i].image
      IN  /\ scoredImages[i].score \in Nat
          /\ scoredImages[i].score =
               OtherPoints(image, scoringQuery) + TypeMatchPoints(image, scoringQuery)
                 + AliasTier(image, scoringQuery)

\* an image was scored on several fields at once, and one with absent fields
C3_Witness ==
  /\ Scored
  /\ \E i \in 1..Len(scoredImages) :
       LET image == scoredImages[i].image
       IN  /\ TitlePoints(image, scoringQuery) > 0
           /\ FieldPoints(image.prompt, scoringQuery, 30) > 0
           /\ scoredImages[i].score > 80
  /\ \E i \in 1..Len(scoredImages) : scoredImages[i].image.title = << >>

\* the transformationType equals or contains the query and also contains a
\* transformation variation
DirectAndAlias(image) ==
  /\ TypeMatchPoints(image, scoringQuery) > 0
  /\ ContainsVariation(image)

\* C4 as stated: the +35 alias bonus is an independent addition, so a record
\* whose transformationType equals or contains the query and contains a
\* variation gets it on top of the +80 or +40.
C4_AliasBonusOnTop ==
  Scored =>
    \A i \in 1..Len(scoredImages) :
      LET image == scoredImages[i].image
      IN  DirectAndAlias(image) =>
            scoredImages[i].score - OtherPoints(image, scoringQuery)
              = TypeMatchPoints(image, scoringQuery) + 35

\* C4 as amended: the +35 is the last tier of the transformationType check; a
\* record whose transformationType equals or contains the query gets +80 or
\* +40 and no alias bonus, and the +35 goes to a record whose
\* transformationType contains a variation but not the query.
C4_AliasBonusIsLastTier ==
  Scored =>
    \A i \in 1..Len(scoredImages) :
      LET image == scoredImages[i].image
          typePoints == scoredImages[i].score - OtherPoints(image, scoringQuery)
      IN  /\ DirectAndAlias(image) => typePoints = TypeMatchPoints(image, scoringQuery)
          /\ (ContainsVariation(image) /\ ~DirectAndAlias(image)) => typePoints = 35

\* one scored image matches the query directly and through a variation,
\* another through a variation only
C4_Witness ==
  /\ Scored
  /\ \E i \in 1..Len(scoredImages) : DirectAndAlias(scoredImages[i].image)
  /\ \E i \in 1..Len(scoredImages) :
       /\ ContainsVariation(scoredImages[i].image)
       /\ ~DirectAndAlias(scoredImages[i].image)

\* the field is present and holds the text, letter case aside
HoldsLiteral(value, text) ==
  value # << >> /\ Contains(toLowerCase(value), toLowerCase(text))

\* the conditions under which a record is to be fetched by the query path,
\* with the sanitized query and the variations taken as literal text
LiteralMatch(image) ==
  \/ \E value \in { image.title, image.transformationType, image.prompt,
                     image.aspectRatio, image.color, image.publicId } :
       HoldsLiteral(value, sanitizedQuery)
  \/ /\ image.author.present
     /\ \/ Contains(toLowerCase(image.author.firstName), toLowerCase(sanitizedQuery))
        \/ Contains(toLowerCase(image.author.lastName), toLowerCase(sanitizedQuery))
  \/ \E k \in 1..Len(transformationVariations) :
       HoldsLiteral(image.transformationType, transformationVariations[k])
  \/ \E k \in 1..Len(searchVariations) :
       \E value \in { image.title, image.transformationType, image.prompt } :
         HoldsLiteral(value, searchVariations[k])

\* C14: the query path fetches exactly the stored records that satisfy at
\* least one of: a whole-word or literal-substring match of the sanitized
\* query in title, transformationType, prompt, aspectRatio or color; a
\* literal-substring match in publicId; a substring match in the author's
\* first or last name; a substring match of a transformation variation in
\* transformationType; a substring match of a spelling variation in title,
\* transformationType or prompt. The sanitized query is literal text: a
\* period in it matches only a period.
C14_FetchedExactlyLiteralMatches ==
  Scored =>
    { scoredImages[i].image : i \in 1..Len(scoredImages) }
      = { image \in Range(store) : LiteralMatch(image) }

-----------------------------------------------------------------------------
(* Properties of the title check of the scorer, checked under SpecTitle *)

\* a word of the lowercased title, as delimited by single spaces, starts
\* with the lowercased query
WordStartsWithQuery(image) ==
  /\ image.title # << >>
  /\ \E w \in split(toLowerCase(image.title)) :
       /\ Len(w) >= Len(scoringQuery)
       /\ SubSeq(w, 1, Len(scoringQuery)) = scoringQuery

\* C22: the title contribution to the score is one of 0, 50 and 100: the
\* word-starts-with tier (+25) never fires, because a title with a word
\* that starts with the query also contains the query and is taken by the
\* exact or the contains tier first. The documents scored here have no
\* field but the title, so the score is the title contribution.
C22_WordStartTierNeverFires ==
  pc = "scored" =>
    \A i \in 1..Len(scoredImages) :
      /\ scoredImages[i].score \in { 0, 50, 100 }
      /\ WordStartsWithQuery(scoredImages[i].image) => scoredImages[i].score >= 50

\* the second word of a title starts with the query, the title does not,
\* and the contains tier gave 50
C22_Witness ==
  /\ pc = "scored"
  /\ scoringQuery # << >>
  /\ \E i \in 1..Len(scoredImages) :
       LET t == toLowerCase(scoredImages[i].image.title)
       IN  /\ WordStartsWithQuery(scoredImages[i].image)
           /\ SubSeq(t, 1, Len(scoringQuery)) # scoringQuery
           /\ scoredImages[i].score = 50

-----------------------------------------------------------------------------
(* Properties of the paths of getAllImages, checked under Spec *)

\* the documents are in updatedAt order, newest first
NewestFirst(images) ==
  \A i, j \in 1..Len(images) : i < j => images[i].updatedAt >= images[j].updatedAt

\* C2 as stated: a searchQuery whose sanitized form is empty takes the
\* no-query path: expander, filter builder, scorer and paginator are never
\* invoked and data is the store's own page in updatedAt order, newest first.
C2_EmptySanitizedQueryTakesNoQueryPath ==
  ( /\ cloudinaryConfigured
    /\ pc \in { "finding", "counting", "done" }
    /\ sanitizeQuery(searchQuery, DefaultMaxLen) = << >> )
  => /\ path = "noquery"
     /\ scoredImages = << >>
     /\ NewestFirst(result.data)

\* C5: in the sorted list of the query path an earlier record has a score at
\* least that of a later one, and with equal scores an updatedAt at least
\* that of the later one; the returned page keeps that order.
C5_SortedByScoreThenRecency ==
  Scored =>
    /\ \A i, j \in 1..Len(scoredImages) :
         i < j =>
           /\ scoredImages[i].score >= scoredImages[j].score
           /\ scoredImages[i].score = scoredImages[j].score
                => scoredImages[i].image.updatedAt >= scoredImages[j].image.updatedAt
    /\ \A i, j \in 1..Len(result.data) :
         i < j =>
           \E m, n \in 1..Len(scoredImages) :
             /\ m < n
             /\ scoredImages[m].image = result.data[i]
             /\ scoredImages[n].image = result.data[j]

\* the 1-based position of a document in the store
StoreIndex(image) == CHOOSE i \in 1..Len(store) : store[i] = image

\* the sort moved a higher score ahead of a document stored before it, and
\* broke a tie of scores by updatedAt against the store's order
C5_Witness ==
  /\ Scored
  /\ \E i, j \in 1..Len(scoredImages) :
       /\ i < j
       /\ scoredImages[i].score > scoredImages[j].score
       /\ StoreIndex(scoredImages[i].image) > StoreIndex(scoredImages[j].image)
  /\ \E i, j \in 1..Len(scoredImages) :
       /\ i < j
       /\ scoredImages[i].score = scoredImages[j].score
       /\ scoredImages[i].image.updatedAt > scoredImages[j].image.updatedAt
       /\ StoreIndex(scoredImages[i].image) > StoreIndex(scoredImages[j].image)

\* C15: two calls of getAllImages with the same arguments against an
\* unchanged store return the same result: the same records in the same
\* order, the same totalPages and the same savedImages, also when records
\* tie on score and updatedAt.
C15_SameCallSameResult ==
  (pc = "done" /\ firstResult # NoResult) => result = firstResult

C17_PredicateFromSanitizedText ==
  (path \in { "fallback", "query" } /\ searchQuery # << >>)
    => filterText = sanitizeQuery(searchQuery, DefaultMaxLen)

\* the query path has returned
Returned == path = "query" /\ pc = "done"

\* C6: data is the contiguous slice [(page-1)*pageSize, (page-1)*pageSize +
\* pageSize) of the sorted list clipped to its n records, so it holds
\* min(pageSize, max(0, n - (page-1)*pageSize)) records; a page beyond
\* totalPages yields an empty data and no error.
C6_PageIsClippedSlice ==
  Returned =>
    LET n == Len(scoredImages)
        first == (page - 1) * limit
    IN  /\ Len(result.data) = Min(limit, Max(0, n - first))
        /\ \A k \in 1..Len(result.data) : result.data[k] = scoredImages[first + k].image
        /\ page > result.totalPages => result.data = << >>

\* a second or later page came back partly filled
C6_Witness ==
  /\ Returned
  /\ page >= 2
  /\ result.data # << >>
  /\ Len(result.data) < limit

\* the number of records matching the search, by path
MatchCount ==
  CASE path = "noquery" -> Len(store)
    [] path = "fallback" ->
         Cardinality({ i \in 1..Len(store) : fallbackFilter(store[i], searchQuery) })
    [] path = "query" ->
         Cardinality({ i \in 1..Len(store) :
           searchFilter(store[i], sanitizedQuery, transformationVariations,
                        searchVariations) })
    [] OTHER -> 0

C8_SavedImagesCountsWholeStore ==
  Returned =>
    /\ result.savedImages = Len(store)
    /\ result.totalPages = Max(1, ceilDiv(MatchCount, limit))

\* fewer records match than the store holds, and the two counts give
\* different numbers of pages
C8_Witness ==
  /\ Returned
  /\ MatchCount > 0
  /\ MatchCount < Len(store)
  /\ result.savedImages = Len(store)
  /\ result.totalPages < ceilDiv(Len(store), limit)

\* the record holds the lowercased query as literal text in one of the
\* fields the scorer reads, or a transformation variation in its
\* transformationType
ScorerSees(image) ==
  \/ \E value \in { image.title, image.transformationType, image.prompt,
                     image.color, image.aspectRatio } :
       value # << >> /\ Contains(toLowerCase(value), scoringQuery)
  \/ /\ image.author.present
     /\ \/ Contains(toLowerCase(image.author.firstName), scoringQuery)
        \/ Contains(toLowerCase(image.author.lastName), scoringQuery)
  \/ ContainsVariation(image)

\* C23 as stated: every record that satisfies the search filter of the
\* query path, also one matched only through publicId, a spelling
\* variation or a regex-special character of the query, gets a score
\* greater than 0, so no record with score 0 is returned.
C23_FetchedScoresPositive ==
  Scored => \A i \in 1..Len(scoredImages) : scoredImages[i].score > 0

\* C23 as amended: a fetched record gets a score greater than 0 exactly
\* when it holds the lowercased sanitized query as literal text in title,
\* transformationType, prompt, color, aspectRatio or the populated author's
\* first or last name, or a transformation variation in its
\* transformationType; a record matched only through publicId, a spelling
\* variation or a regex-special character of the query gets 0 and stays
\* in the list that is paged.
C23_ScorePositiveIffScorerSees ==
  Scored =>
    \A i \in 1..Len(scoredImages) :
      /\ scoredImages[i].score > 0 <=> ScorerSees(scoredImages[i].image)
      /\ scoredImages[i].image \in Range(store)

\* a record matched through its publicId only was returned with score 0
C23_Witness ==
  /\ Returned
  /\ sanitizedQuery # << >>
  /\ \E i \in 1..Len(scoredImages) :
       /\ scoredImages[i].score = 0
       /\ HoldsLiteral(scoredImages[i].image.publicId, sanitizedQuery)
       /\ scoredImages[i].image \in Range(result.data)

-----------------------------------------------------------------------------
(* Properties of the user actions, checked under SpecUsers *)

\* C21: after any interleaving of getOrCreateUserByClerkId and createUser
\* calls for the same clerkId the store holds at most one user record with
\* that clerkId.
C21_OneUserPerClerkId ==
  \A clerkId \in ClerkIds :
    Cardinality({ i \in 1..Len(users) : users[i] = clerkId }) <= 1

\* C21 where the schema declares clerkId unique
C21_OneUserPerClerkIdWithIndex == uniqueClerkId => C21_OneUserPerClerkId

\* two calls for the same clerkId both found no user and both went on to
\* create one; one has created it, the other is about to
C21_BothPastTheFind ==
  \E c, d \in Callers :
    /\ c # d
    /\ calls[c].clerkId = calls[d].clerkId
    /\ calls[c].pc = "returned"
    /\ calls[d].pc = "create"
    /\ stored(calls[d].clerkId)

=============================================================================
